---- MODULE Spec2Model ----
(***************************************************************************)
(* A model of the bank ledger of src/exception.py: the accounts mapping of *)
(* BankSystem and its operations add_account, deposit, withdraw, transfer  *)
(* and check_balance.  Every operation is one atomic step (the program is  *)
(* single threaded); the outcome of the latest call, the exception raised  *)
(* or the value returned, is kept in the variable last.  Amounts are       *)
(* integers.  The holder field of Account is never read and is left out.   *)
(*                                                                         *)
(* Three specifications share the handlers:                                *)
(*   Spec          any sequence of calls on a ledger that starts empty;    *)
(*   SpecScenario  the test driver of lines 170-187 run on the bootstrap   *)
(*                 of lines 159-163 (step is the driver's position);       *)
(*   SpecRace      two callers running withdraw with no synchronization,   *)
(*                 the checks and the updates being separate steps         *)
(*                 (threads holds each caller's position and arguments;    *)
(*                 it is empty in the other two specifications).           *)
(***************************************************************************)
EXTENDS Integers, FiniteSets, Sequences, TLC

\* ------------------------------------------------------------------ bounds
MaxBal == 2          \* deposits and incoming transfers stop at this balance
MaxLimit == 4        \* the largest daily limit an account is registered with

Numbers == {"ACC001", "ACC002"}
Types == {"Savings", "Checking"}
\* the amounts requested: one negative, zero, and two positive ones
Amounts == {-1, 0, 1, 2}
InitBalances == {0, MaxBal}
DailyLimits == {0, MaxLimit}

VARIABLES accounts, last, step, threads
vars == <<accounts, last, step, threads>>

\* The callers of SpecRace, and a caller that has not called yet.
Threads == {1, 2}
Idle == [pc |-> "idle", account_number |-> "", amount |-> 0,
         exc |-> [kind |-> "None"], raced |-> FALSE]

\* --------------------------------------------------------------- exceptions
NoException == [kind |-> "None"]

InsufficientFundsException(account_number, amount, balance) ==
    [kind |-> "InsufficientFunds", account_number |-> account_number,
     amount |-> amount, balance |-> balance]

NegativeAmountException(amount) ==
    [kind |-> "NegativeAmount", amount |-> amount]

ZeroAmountException == [kind |-> "ZeroAmount"]

DailyLimitExceededException(account_number, amount, remaining_limit) ==
    [kind |-> "DailyLimitExceeded", account_number |-> account_number,
     amount |-> amount, remaining_limit |-> remaining_limit]

AccountNotFoundException(account_number) ==
    [kind |-> "AccountNotFound", account_number |-> account_number]

InvalidAccountTypeException(account_number, account_type) ==
    [kind |-> "InvalidAccountType", account_number |-> account_number,
     account_type |-> account_type]

\* ------------------------------------------------------------------ Account
Account(number, balance, acc_type, daily_limit) ==
    [number |-> number, balance |-> balance, type |-> acc_type,
     daily_limit |-> daily_limit, total_withdrawn_today |-> 0,
     withdraw_count |-> 0]

\* --------------------------------------------------------------- BankSystem
\* The outcome of a call: the mapping it leaves, the exception it raised (or
\* NoException) and the value it returned (0 when it returns nothing).
Raise(accts, exc) == [accounts |-> accts, exc |-> exc, ret |-> 0]
Return(accts, ret) == [accounts |-> accts, exc |-> NoException, ret |-> ret]

\* add_account leaving a number that is already registered as it is
add_account_keep_existing(accts, account) ==
    IF account.number \in DOMAIN accts
    THEN accts
    ELSE [n \in (DOMAIN accts) \cup {account.number} |->
            IF n = account.number THEN account ELSE accts[n]]

add_account(accts, account) ==
    [n \in (DOMAIN accts) \cup {account.number} |->
        IF n = account.number THEN account ELSE accts[n]]

\* deposit with the account looked up before the amount is validated
deposit_lookup_first(accts, account_number, amount) ==
    IF account_number \notin DOMAIN accts
    THEN Raise(accts, AccountNotFoundException(account_number))
    ELSE IF amount < 0 THEN Raise(accts, NegativeAmountException(amount))
    ELSE IF amount = 0 THEN Raise(accts, ZeroAmountException)
    ELSE Return([accts EXCEPT ![account_number].balance = @ + amount], 0)

\* deposit refusing a Savings account that reached the withdraw cap
deposit_with_savings_cap(accts, account_number, amount) ==
    IF amount < 0 THEN Raise(accts, NegativeAmountException(amount))
    ELSE IF amount = 0 THEN Raise(accts, ZeroAmountException)
    ELSE IF account_number \notin DOMAIN accts
         THEN Raise(accts, AccountNotFoundException(account_number))
    ELSE IF /\ accts[account_number].type = "Savings"
            /\ accts[account_number].withdraw_count >= 3
         THEN Raise(accts, InvalidAccountTypeException(account_number, "Savings"))
    ELSE Return([accts EXCEPT ![account_number].balance = @ + amount], 0)

\* deposit starting a new day: it clears total_withdrawn_today
deposit_resets_total(accts, account_number, amount) ==
    IF amount < 0 THEN Raise(accts, NegativeAmountException(amount))
    ELSE IF amount = 0 THEN Raise(accts, ZeroAmountException)
    ELSE IF account_number \notin DOMAIN accts
         THEN Raise(accts, AccountNotFoundException(account_number))
    ELSE Return([accts EXCEPT ![account_number].balance = @ + amount,
                              ![account_number].total_withdrawn_today = 0], 0)

deposit(accts, account_number, amount) ==
    IF amount < 0 THEN Raise(accts, NegativeAmountException(amount))
    ELSE IF amount = 0 THEN Raise(accts, ZeroAmountException)
    ELSE IF account_number \notin DOMAIN accts
         THEN Raise(accts, AccountNotFoundException(account_number))
    ELSE Return([accts EXCEPT ![account_number].balance = @ + amount], 0)

\* The checks of withdraw on a found account, in a given order, with a given
\* way of applying the withdrawal; the variants below differ from withdraw in
\* one point each.
withdraw_variant(accts, account_number, amount, cap, checkFunds, limitFirst,
                 earlyDebit, countStep) ==
    IF amount < 0 THEN Raise(accts, NegativeAmountException(amount))
    ELSE IF amount = 0 THEN Raise(accts, ZeroAmountException)
    ELSE IF account_number \notin DOMAIN accts
         THEN Raise(accts, AccountNotFoundException(account_number))
    ELSE LET account == accts[account_number]
             remaining == account.daily_limit - account.total_withdrawn_today
             debited == [accts EXCEPT ![account_number].balance = @ - amount]
             funds == InsufficientFundsException(account.number, amount,
                                                 account.balance)
             limit == DailyLimitExceededException(account.number, amount,
                                                  remaining)
             short == checkFunds /\ account.balance < amount
             over == account.total_withdrawn_today + amount > account.daily_limit
         IN
         IF account.type = "Savings" /\ account.withdraw_count >= cap
         THEN Raise(accts, InvalidAccountTypeException(account.number, account.type))
         ELSE IF limitFirst /\ over THEN Raise(accts, limit)
         ELSE IF short THEN Raise(accts, funds)
         ELSE IF over THEN Raise(IF earlyDebit THEN debited ELSE accts, limit)
         ELSE LET a2 == [debited EXCEPT
                           ![account_number].total_withdrawn_today = @ + amount]
                  a3 == [a2 EXCEPT ![account_number].withdraw_count = @ + countStep]
              IN Return(a3, 0)

\* withdraw without the balance check
withdraw_no_funds_check(accts, account_number, amount) ==
    withdraw_variant(accts, account_number, amount, 3, FALSE, FALSE, FALSE, 1)

\* withdraw debiting the balance before the daily-limit check
withdraw_debit_before_limit(accts, account_number, amount) ==
    withdraw_variant(accts, account_number, amount, 3, TRUE, FALSE, TRUE, 1)

\* withdraw with the Savings cap off by one (withdraw_count > 3)
withdraw_cap_off_by_one(accts, account_number, amount) ==
    withdraw_variant(accts, account_number, amount, 4, TRUE, FALSE, FALSE, 1)

\* withdraw checking the daily limit before the balance
withdraw_limit_first(accts, account_number, amount) ==
    withdraw_variant(accts, account_number, amount, 3, TRUE, TRUE, FALSE, 1)

\* withdraw adding the amount, not 1, to withdraw_count
withdraw_count_by_amount(accts, account_number, amount) ==
    withdraw_variant(accts, account_number, amount, 3, TRUE, FALSE, FALSE, amount)

\* withdraw applying the cap of 3 withdrawals to every account type
withdraw_cap_any_type(accts, account_number, amount) ==
    IF /\ amount > 0
       /\ account_number \in DOMAIN accts
       /\ accts[account_number].withdraw_count >= 3
    THEN Raise(accts, InvalidAccountTypeException(account_number,
                                                  accts[account_number].type))
    ELSE withdraw_variant(accts, account_number, amount, 3, TRUE, FALSE, FALSE, 1)

\* withdraw debiting one unit whatever the amount
withdraw_debits_one(accts, account_number, amount) ==
    LET r == withdraw_variant(accts, account_number, amount, 3, TRUE, FALSE,
                              FALSE, 1)
    IN IF r.exc.kind = "None"
       THEN Return([r.accounts EXCEPT ![account_number].balance =
                        accts[account_number].balance - 1], 0)
       ELSE r

withdraw(accts, account_number, amount) ==
    IF amount < 0 THEN Raise(accts, NegativeAmountException(amount))
    ELSE IF amount = 0 THEN Raise(accts, ZeroAmountException)
    ELSE IF account_number \notin DOMAIN accts
         THEN Raise(accts, AccountNotFoundException(account_number))
    ELSE LET account == accts[account_number] IN
         IF account.type = "Savings" /\ account.withdraw_count >= 3
         THEN Raise(accts, InvalidAccountTypeException(account.number, account.type))
         ELSE IF account.balance < amount
         THEN Raise(accts, InsufficientFundsException(account.number, amount,
                                                      account.balance))
         ELSE IF account.total_withdrawn_today + amount > account.daily_limit
         THEN LET remaining == account.daily_limit - account.total_withdrawn_today
              IN Raise(accts, DailyLimitExceededException(account.number, amount,
                                                          remaining))
         ELSE LET a1 == [accts EXCEPT ![account_number].balance = @ - amount]
                  a2 == [a1 EXCEPT ![account_number].total_withdrawn_today = @ + amount]
                  a3 == [a2 EXCEPT ![account_number].withdraw_count = @ + 1]
              IN Return(a3, 0)

\* The checks of transfer in a given order; the variants below differ from
\* transfer in one point each.
transfer_variant(accts, from_account, to_account, amount, checkLimit,
                 receiverFirst, savingsCap, countStep) ==
    IF amount < 0 THEN Raise(accts, NegativeAmountException(amount))
    ELSE IF amount = 0 THEN Raise(accts, ZeroAmountException)
    ELSE IF receiverFirst /\ to_account \notin DOMAIN accts
         THEN Raise(accts, AccountNotFoundException(to_account))
    ELSE IF from_account \notin DOMAIN accts
         THEN Raise(accts, AccountNotFoundException(from_account))
    ELSE IF to_account \notin DOMAIN accts
         THEN Raise(accts, AccountNotFoundException(to_account))
    ELSE LET sender == accts[from_account] IN
         IF savingsCap /\ sender.type = "Savings" /\ sender.withdraw_count >= 3
         THEN Raise(accts, InvalidAccountTypeException(sender.number, sender.type))
         ELSE IF sender.balance < amount
         THEN Raise(accts, InsufficientFundsException(sender.number, amount,
                                                      sender.balance))
         ELSE IF checkLimit
                 /\ sender.total_withdrawn_today + amount > sender.daily_limit
         THEN Raise(accts, DailyLimitExceededException(sender.number, amount,
                        sender.daily_limit - sender.total_withdrawn_today))
         ELSE LET a1 == [accts EXCEPT ![from_account].balance = @ - amount]
                  a2 == [a1 EXCEPT ![to_account].balance = @ + amount]
                  a3 == [a2 EXCEPT ![from_account].total_withdrawn_today = @ + amount]
                  a4 == [a3 EXCEPT ![from_account].withdraw_count = @ + countStep]
              IN Return(a4, 0)

\* transfer without the daily-limit check
transfer_no_limit_check(accts, from_account, to_account, amount) ==
    transfer_variant(accts, from_account, to_account, amount, FALSE, FALSE, FALSE, 0)

\* transfer applying the Savings cap of withdraw to the sender
transfer_with_savings_cap(accts, from_account, to_account, amount) ==
    transfer_variant(accts, from_account, to_account, amount, TRUE, FALSE, TRUE, 0)

\* transfer resolving the receiver before the sender
transfer_receiver_first(accts, from_account, to_account, amount) ==
    transfer_variant(accts, from_account, to_account, amount, TRUE, TRUE, FALSE, 0)

\* transfer counting as a withdrawal of the sender
transfer_counts_withdrawal(accts, from_account, to_account, amount) ==
    transfer_variant(accts, from_account, to_account, amount, TRUE, FALSE, FALSE, 1)

\* transfer crediting the receiver from the balance read before the debit
transfer_stale_credit(accts, from_account, to_account, amount) ==
    LET r == transfer_variant(accts, from_account, to_account, amount, TRUE,
                              FALSE, FALSE, 0)
    IN IF r.exc.kind = "None"
       THEN Return([r.accounts EXCEPT ![to_account].balance =
                        accts[to_account].balance + amount], 0)
       ELSE r

\* transfer that never credits the receiver
transfer_without_credit(accts, from_account, to_account, amount) ==
    LET r == transfer_variant(accts, from_account, to_account, amount, TRUE,
                              FALSE, FALSE, 0)
    IN IF r.exc.kind = "None"
       THEN Return([r.accounts EXCEPT ![to_account].balance = @ - amount], 0)
       ELSE r

transfer(accts, from_account, to_account, amount) ==
    IF amount < 0 THEN Raise(accts, NegativeAmountException(amount))
    ELSE IF amount = 0 THEN Raise(accts, ZeroAmountException)
    ELSE IF from_account \notin DOMAIN accts
         THEN Raise(accts, AccountNotFoundException(from_account))
    ELSE IF to_account \notin DOMAIN accts
         THEN Raise(accts, AccountNotFoundException(to_account))
    ELSE LET sender == accts[from_account] IN
         IF sender.balance < amount
         THEN Raise(accts, InsufficientFundsException(sender.number, amount,
                                                      sender.balance))
         ELSE IF sender.total_withdrawn_today + amount > sender.daily_limit
         THEN LET remaining == sender.daily_limit - sender.total_withdrawn_today
              IN Raise(accts, DailyLimitExceededException(sender.number, amount,
                                                          remaining))
         \* sender and receiver are references into the mapping: when
         \* from_account = to_account the three updates hit the same record
         ELSE LET a1 == [accts EXCEPT ![from_account].balance = @ - amount]
                  a2 == [a1 EXCEPT ![to_account].balance = @ + amount]
                  a3 == [a2 EXCEPT ![from_account].total_withdrawn_today = @ + amount]
              IN Return(a3, 0)

check_balance(accts, account_number) ==
    IF account_number \notin DOMAIN accts
    THEN Raise(accts, AccountNotFoundException(account_number))
    ELSE Return(accts, accts[account_number].balance)

\* ------------------------------------------------------------------ actions
\* The record of the latest call: operation, arguments and outcome.
Call(op, account_number, to_account, amount, exc, ret) ==
    [op |-> op, account_number |-> account_number, to_account |-> to_account,
     amount |-> amount, exc |-> exc, ret |-> ret]

\* Balances stay within the model's bound.
WithinBound(accts) == \A n \in DOMAIN accts : accts[n].balance <= MaxBal

Init ==
    /\ accounts = << >>
    /\ last = Call("init", "", "", 0, NoException, 0)
    /\ step = 0
    /\ threads = << >>

AddAccount ==
    \E n \in Numbers, b \in InitBalances, t \in Types, l \in DailyLimits :
        /\ accounts' = add_account(accounts, Account(n, b, t, l))
        /\ last' = Call("add_account", n, "", 0, NoException, 0)
        /\ UNCHANGED <<step, threads>>

Deposit ==
    \E n \in Numbers, a \in Amounts :
        \E r \in {deposit(accounts, n, a)} :
        /\ WithinBound(r.accounts)
        /\ accounts' = r.accounts
        /\ last' = Call("deposit", n, "", a, r.exc, r.ret)
        /\ UNCHANGED <<step, threads>>

Withdraw ==
    \E n \in Numbers, a \in Amounts :
        \E r \in {withdraw(accounts, n, a)} :
        /\ WithinBound(r.accounts)
        /\ accounts' = r.accounts
        /\ last' = Call("withdraw", n, "", a, r.exc, r.ret)
        /\ UNCHANGED <<step, threads>>

Transfer ==
    \E f \in Numbers, t \in Numbers, a \in Amounts :
        \E r \in {transfer(accounts, f, t, a)} :
        /\ WithinBound(r.accounts)
        /\ accounts' = r.accounts
        /\ last' = Call("transfer", f, t, a, r.exc, r.ret)
        /\ UNCHANGED <<step, threads>>

CheckBalance ==
    \E n \in Numbers :
        \E r \in {check_balance(accounts, n)} :
        /\ accounts' = r.accounts
        /\ last' = Call("check_balance", n, "", 0, r.exc, r.ret)
        /\ UNCHANGED <<step, threads>>

Next == AddAccount \/ Deposit \/ Withdraw \/ Transfer \/ CheckBalance

Spec == Init /\ [][Next]_vars

\* ------------------------------------------------- the scenario of the source
\* The calls of the list tests, in order.
ScenarioTests ==
    << [op |-> "deposit",  account_number |-> "ACC001", to_account |-> "",
        amount |-> 500],
       [op |-> "deposit",  account_number |-> "ACC001", to_account |-> "",
        amount |-> -100],
       [op |-> "withdraw", account_number |-> "ACC002", to_account |-> "",
        amount |-> 0],
       [op |-> "withdraw", account_number |-> "ACC003", to_account |-> "",
        amount |-> 600],
       [op |-> "withdraw", account_number |-> "ACC001", to_account |-> "",
        amount |-> 800],
       [op |-> "withdraw", account_number |-> "ACC001", to_account |-> "",
        amount |-> 500],
       [op |-> "withdraw", account_number |-> "ACC999", to_account |-> "",
        amount |-> 100],
       [op |-> "transfer", account_number |-> "ACC002", to_account |-> "ACC001",
        amount |-> 200],
       [op |-> "transfer", account_number |-> "ACC001", to_account |-> "ACC002",
        amount |-> 2000] >>

\* The three add_account calls of the bootstrap, with the types and daily
\* limits as parameters.
Bootstrap(t1, l1, t2, l2, t3, l3) ==
    add_account(
        add_account(
            add_account(<< >>, Account("ACC001", 5000, t1, l1)),
            Account("ACC002", 15000, t2, l2)),
        Account("ACC003", 500, t3, l3))

\* The bootstrap of the source.
SourceBootstrap ==
    Bootstrap("Savings", 1000, "Checking", 5000, "Savings", 500)

\* The daily limits the scenario is run with: those of the source.
ScenarioLimits == {500, 1000, 5000}

\* The driver is run on the source's accounts and balances; the types and
\* the daily limits are drawn from those the source uses, the source's own
\* bootstrap being one of the choices.
ScenarioInit ==
    /\ \E t1 \in Types, t2 \in Types, t3 \in Types,
          l1 \in ScenarioLimits, l2 \in ScenarioLimits, l3 \in ScenarioLimits :
          accounts = Bootstrap(t1, l1, t2, l2, t3, l3)
    /\ last = Call("init", "", "", 0, NoException, 0)
    /\ step = 0
    /\ threads = << >>

\* One turn of the driver's loop: the next test is called and its exception,
\* if any, is caught.
RunTest ==
    /\ step < Len(ScenarioTests)
    /\ LET test == ScenarioTests[step + 1] IN
       \E r \in {IF test.op = "deposit"
                 THEN deposit(accounts, test.account_number, test.amount)
                 ELSE IF test.op = "withdraw"
                 THEN withdraw(accounts, test.account_number, test.amount)
                 ELSE transfer(accounts, test.account_number, test.to_account,
                               test.amount)} :
          /\ accounts' = r.accounts
          /\ last' = Call(test.op, test.account_number, test.to_account,
                          test.amount, r.exc, r.ret)
    /\ step' = step + 1
    /\ UNCHANGED threads

ScenarioNext == RunTest

SpecScenario == ScenarioInit /\ [][ScenarioNext]_vars

\* --------------------------------------------- withdraw without synchronization
\* withdraw refusing nothing for lack of funds, as a check of the first step
withdraw_validate_no_funds(accts, account_number, amount) ==
    withdraw_no_funds_check(accts, account_number, amount).exc

\* The first step of withdraw, its checks: the exception raised, or
\* NoException when the call goes on to the updates.
withdraw_validate(accts, account_number, amount) ==
    withdraw(accts, account_number, amount).exc

\* The second step of withdraw, its three updates, on the mapping as it is
\* when the step runs.
withdraw_apply(accts, account_number, amount) ==
    [accts EXCEPT ![account_number].balance = @ - amount,
                  ![account_number].total_withdrawn_today = @ + amount,
                  ![account_number].withdraw_count = @ + 1]

\* The daily limits of the accounts the callers share.
RaceLimits == 0 .. MaxLimit

\* Both numbers are registered, each with a fresh account.
RaceInit ==
    /\ \E b1 \in InitBalances, b2 \in InitBalances, t1 \in Types, t2 \in Types,
          l1 \in RaceLimits, l2 \in RaceLimits :
          accounts = add_account(
                         add_account(<< >>, Account("ACC001", b1, t1, l1)),
                         Account("ACC002", b2, t2, l2))
    /\ last = Call("init", "", "", 0, NoException, 0)
    /\ step = 0
    /\ threads = [t \in Threads |-> Idle]

\* A caller enters withdraw and runs its checks.  raced records that another
\* caller had passed the checks on the same account and not yet updated it.
WithdrawValidate(t) ==
    /\ threads[t].pc = "idle"
    /\ \E n \in Numbers, a \in Amounts :
          \E e \in {withdraw_validate(accounts, n, a)} :
             threads' = [threads EXCEPT ![t] =
                 [pc |-> IF e.kind = "None" THEN "checked" ELSE "done",
                  account_number |-> n, amount |-> a, exc |-> e,
                  raced |-> \E u \in Threads \ {t} :
                               /\ threads[u].pc = "checked"
                               /\ threads[u].account_number = n]]
    /\ UNCHANGED <<accounts, last, step>>

\* A caller that passed the checks updates the account and returns.
WithdrawMutate(t) ==
    /\ threads[t].pc = "checked"
    /\ accounts' = withdraw_apply(accounts, threads[t].account_number,
                                  threads[t].amount)
    /\ threads' = [threads EXCEPT ![t].pc = "done"]
    /\ UNCHANGED <<last, step>>

RaceNext == \E t \in Threads : WithdrawValidate(t) \/ WithdrawMutate(t)

SpecRace == RaceInit /\ [][RaceNext]_vars


\* ------------------------------------------------------------ vocabulary
ErrorKinds == {"NegativeAmount", "ZeroAmount", "AccountNotFound",
               "InvalidAccountType", "InsufficientFunds", "DailyLimitExceeded"}
Succeeded(c) == c.exc.kind = "None"
Failed(c) == c.exc.kind \in ErrorKinds
Registered(n) == n \in DOMAIN accounts
\* The accounts other than those in S keep their records across the step.
OthersUnchanged(S) ==
    /\ DOMAIN accounts' = DOMAIN accounts
    /\ \A m \in DOMAIN accounts \ S : accounts'[m] = accounts[m]

\* ---------------------------------------------------------------- claims

\* C1: registered with balance >= 0, every account has balance >= 0 after any
\* sequence of deposit, withdraw, transfer and check_balance calls.
C1_BalanceNonNegative ==
    \A n \in DOMAIN accounts : accounts[n].balance >= 0

\* a withdrawal that took the whole balance
C1_Witness ==
    /\ last.op = "withdraw" /\ Succeeded(last) /\ last.amount = 2
    /\ accounts[last.account_number].balance = 0

\* C2: registered with daily_limit >= 0 and total_withdrawn_today = 0, every
\* account keeps total_withdrawn_today <= daily_limit.
C2_WithinDailyLimit ==
    \A n \in DOMAIN accounts :
        accounts[n].total_withdrawn_today <= accounts[n].daily_limit

\* a transfer that used up the sender's daily limit
C2_Witness ==
    /\ last.op = "transfer" /\ Succeeded(last)
    /\ accounts[last.account_number].daily_limit > 0
    /\ accounts[last.account_number].total_withdrawn_today
         = accounts[last.account_number].daily_limit

\* C3: a call that ends in an error leaves every account and the set of
\* registered numbers as they were.
C3_FailureChangesNothing ==
    [][Failed(last') => accounts' = accounts]_vars

\* a withdrawal the balance covers, refused for the daily limit
C3_Witness ==
    /\ last.op = "withdraw" /\ last.exc.kind = "DailyLimitExceeded"
    /\ accounts[last.account_number].balance >= last.amount

\* C4 as stated: on a Savings account with 3 successful withdrawals, the next
\* withdraw call fails with InvalidAccountType whatever the amount.
C4_AnyAmountRefused ==
    [][(/\ last'.op = "withdraw"
        /\ Registered(last'.account_number)
        /\ accounts[last'.account_number].type = "Savings"
        /\ accounts[last'.account_number].withdraw_count >= 3)
       => last'.exc.kind = "InvalidAccountType"]_vars

\* C4 amended: on a Savings account with 3 successful withdrawals, the next
\* withdraw call with amount > 0 fails with InvalidAccountType(number, type),
\* whatever the amount and the balance.
C4_PositiveAmountRefused ==
    [][(/\ last'.op = "withdraw"
        /\ last'.amount > 0
        /\ Registered(last'.account_number)
        /\ accounts[last'.account_number].type = "Savings"
        /\ accounts[last'.account_number].withdraw_count >= 3)
       => /\ last'.exc = InvalidAccountTypeException(last'.account_number, "Savings")
          /\ accounts' = accounts]_vars

\* a refused fourth withdrawal that the balance and the daily limit allow
C4_Witness ==
    /\ last.op = "withdraw" /\ last.exc.kind = "InvalidAccountType"
    /\ accounts[last.account_number].withdraw_count = 3
    /\ accounts[last.account_number].balance >= last.amount
    /\ accounts[last.account_number].total_withdrawn_today + last.amount
         <= accounts[last.account_number].daily_limit

\* C5: a transfer from a Savings sender with withdraw_count >= 3 succeeds when
\* amount > 0, the receiver exists, the balance covers the amount and the
\* daily limit allows it; no transfer fails with InvalidAccountType.
C5_TransferIgnoresCap ==
    [][last'.op = "transfer" =>
        /\ last'.exc.kind # "InvalidAccountType"
        /\ (/\ last'.amount > 0
            /\ Registered(last'.account_number)
            /\ Registered(last'.to_account)
            /\ accounts[last'.account_number].type = "Savings"
            /\ accounts[last'.account_number].withdraw_count >= 3
            /\ accounts[last'.account_number].balance >= last'.amount
            /\ accounts[last'.account_number].total_withdrawn_today + last'.amount
                 <= accounts[last'.account_number].daily_limit)
           => Succeeded(last')]_vars

\* a successful transfer out of a Savings account that reached the cap
C5_Witness ==
    /\ last.op = "transfer" /\ Succeeded(last)
    /\ accounts[last.account_number].type = "Savings"
    /\ accounts[last.account_number].withdraw_count >= 3

\* C6: deposit, withdraw and transfer validate the amount before any lookup:
\* amount < 0 gives NegativeAmount and amount = 0 gives ZeroAmount whether or
\* not the accounts exist; AccountNotFound is raised only with amount > 0.
C6_AmountBeforeLookup ==
    [][last'.op \in {"deposit", "withdraw", "transfer"} =>
        /\ last'.amount < 0 => last'.exc = NegativeAmountException(last'.amount)
        /\ last'.amount = 0 => last'.exc = ZeroAmountException
        /\ last'.exc.kind = "AccountNotFound" => last'.amount > 0]_vars

\* a deposit of an invalid amount into an account that does not exist
C6_Witness ==
    /\ last.op = "deposit" /\ last.amount <= 0
    /\ ~Registered(last.account_number)
    /\ last.exc.kind \in {"NegativeAmount", "ZeroAmount"}

\* C7: withdraw with amount > 0 on an existing account reports the first
\* failing check of: Savings cap, balance, daily limit; it succeeds exactly
\* when none of the three fails.
C7_WithdrawCheckOrder ==
    [][(/\ last'.op = "withdraw" /\ last'.amount > 0
        /\ Registered(last'.account_number)) =>
        LET n == last'.account_number
            a == last'.amount
            acc == accounts[n]
            capped == acc.type = "Savings" /\ acc.withdraw_count >= 3
            short == acc.balance < a
            over == acc.total_withdrawn_today + a > acc.daily_limit
        IN /\ capped => last'.exc = InvalidAccountTypeException(n, acc.type)
           /\ (~capped /\ short) =>
                 last'.exc = InsufficientFundsException(n, a, acc.balance)
           /\ (~capped /\ ~short /\ over) =>
                 last'.exc = DailyLimitExceededException(n, a,
                               acc.daily_limit - acc.total_withdrawn_today)
           /\ Succeeded(last') <=> (~capped /\ ~short /\ ~over)]_vars

\* a request above both the balance and the daily limit, reported as
\* InsufficientFunds
C7_Witness ==
    /\ last.op = "withdraw" /\ last.exc.kind = "InsufficientFunds"
    /\ accounts[last.account_number].total_withdrawn_today + last.amount
         > accounts[last.account_number].daily_limit

\* C8: transfer with amount > 0 checks in the order sender lookup, receiver
\* lookup, sender balance, sender daily limit.
C8_TransferCheckOrder ==
    [][(last'.op = "transfer" /\ last'.amount > 0) =>
        LET f == last'.account_number
            t == last'.to_account
            a == last'.amount
        IN /\ ~Registered(f) => last'.exc = AccountNotFoundException(f)
           /\ (Registered(f) /\ ~Registered(t)) =>
                 last'.exc = AccountNotFoundException(t)
           /\ (Registered(f) /\ Registered(t) /\ accounts[f].balance < a) =>
                 last'.exc = InsufficientFundsException(f, a, accounts[f].balance)
           /\ (/\ Registered(f) /\ Registered(t) /\ accounts[f].balance >= a
               /\ accounts[f].total_withdrawn_today + a > accounts[f].daily_limit) =>
                 last'.exc = DailyLimitExceededException(f, a,
                     accounts[f].daily_limit - accounts[f].total_withdrawn_today)]_vars

\* a missing receiver reported although the sender cannot cover the amount
C8_Witness ==
    /\ last.op = "transfer"
    /\ last.exc = AccountNotFoundException(last.to_account)
    /\ Registered(last.account_number)
    /\ accounts[last.account_number].balance < last.amount

\* C9: a successful withdraw lowers the account's balance by amount, raises
\* its total_withdrawn_today by amount and its withdraw_count by 1, and leaves
\* its other fields, every other account and the set of accounts unchanged.
C9_WithdrawEffect ==
    [][(last'.op = "withdraw" /\ Succeeded(last')) =>
        LET n == last'.account_number
            a == last'.amount
        IN /\ Registered(n)
           /\ accounts'[n] = [accounts[n] EXCEPT
                                !.balance = @ - a,
                                !.total_withdrawn_today = @ + a,
                                !.withdraw_count = @ + 1]
           /\ OthersUnchanged({n})]_vars

\* a successful withdrawal of 2 while another account is registered
C9_Witness ==
    /\ last.op = "withdraw" /\ Succeeded(last) /\ last.amount = 2
    /\ accounts[last.account_number].withdraw_count >= 2
    /\ DOMAIN accounts = Numbers

C11_DepositEffect ==
    [][(/\ last'.op = "deposit" /\ last'.amount > 0
        /\ Registered(last'.account_number)) =>
        LET n == last'.account_number
        IN /\ Succeeded(last')
           /\ accounts'[n] = [accounts[n] EXCEPT !.balance = @ + last'.amount]
           /\ OthersUnchanged({n})]_vars

\* a deposit accepted on a Savings account that reached the withdraw cap and
\* used up its daily limit
C11_Witness ==
    /\ last.op = "deposit" /\ Succeeded(last)
    /\ accounts[last.account_number].type = "Savings"
    /\ accounts[last.account_number].withdraw_count = 3
    /\ accounts[last.account_number].total_withdrawn_today
         = accounts[last.account_number].daily_limit

\* C14: from any state, a successful deposit(number, amount) followed at once
\* by a successful withdraw(number, amount) gives the account the balance it
\* had before the deposit, with total_withdrawn_today amount higher and
\* withdraw_count 1 higher.
C14_DepositWithdrawRoundTrip ==
    \A n \in Numbers, a \in Amounts :
        LET d == deposit(accounts, n, a)
            w == withdraw(d.accounts, n, a)
        IN (d.exc.kind = "None" /\ w.exc.kind = "None") =>
              /\ a > 0 /\ Registered(n)
              /\ d.accounts[n].balance = accounts[n].balance + a
              /\ w.accounts = [accounts EXCEPT
                                 ![n].total_withdrawn_today = @ + a,
                                 ![n].withdraw_count = @ + 1]

\* the state between the two calls: a deposit of 2 has just succeeded on an
\* account that held nothing before, and the withdraw of 2 will succeed
C14_Witness ==
    /\ last.op = "deposit" /\ Succeeded(last) /\ last.amount = 2
    /\ accounts[last.account_number].balance = 2
    /\ accounts[last.account_number].withdraw_count > 0
    /\ withdraw(accounts, last.account_number, 2).exc.kind = "None"

\* C16: deposit, withdraw, transfer and check_balance never lower an
\* account's total_withdrawn_today or withdraw_count; withdraw_count changes
\* only in a successful withdraw on that account, total_withdrawn_today only
\* in a successful withdraw on it or a successful transfer it sends.
C16_CountersOnlyGrow ==
    [][last'.op \in {"deposit", "withdraw", "transfer", "check_balance"} =>
        \A n \in DOMAIN accounts :
            /\ n \in DOMAIN accounts'
            /\ accounts'[n].total_withdrawn_today
                 >= accounts[n].total_withdrawn_today
            /\ accounts'[n].withdraw_count >= accounts[n].withdraw_count
            /\ accounts'[n].withdraw_count # accounts[n].withdraw_count =>
                 /\ last'.op = "withdraw" /\ Succeeded(last')
                 /\ last'.account_number = n
            /\ accounts'[n].total_withdrawn_today
                 # accounts[n].total_withdrawn_today =>
                 /\ last'.op \in {"withdraw", "transfer"} /\ Succeeded(last')
                 /\ last'.account_number = n]_vars

\* a deposit into an account that has withdrawn and sent transfers before
C16_Witness ==
    /\ last.op = "deposit" /\ Succeeded(last)
    /\ accounts[last.account_number].withdraw_count > 0
    /\ accounts[last.account_number].total_withdrawn_today
         > accounts[last.account_number].withdraw_count

C18_SelfTransfer ==
    [][(/\ last'.op = "transfer" /\ last'.amount > 0
        /\ last'.to_account = last'.account_number
        /\ Registered(last'.account_number)) =>
        LET n == last'.account_number
            a == last'.amount
            allowed == /\ accounts[n].balance >= a
                       /\ accounts[n].total_withdrawn_today + a
                            <= accounts[n].daily_limit
        IN /\ Succeeded(last') <=> allowed
           /\ Succeeded(last') =>
                /\ accounts'[n].balance = accounts[n].balance
                /\ accounts'[n].withdraw_count = accounts[n].withdraw_count
                /\ accounts'[n].total_withdrawn_today
                     = accounts[n].total_withdrawn_today + a
           /\ ~Succeeded(last') => accounts' = accounts]_vars

\* self-transfers that used up the daily limit of an account that never
\* withdrew and still holds its whole balance
C18_Witness ==
    /\ last.op = "transfer" /\ Succeeded(last)
    /\ last.to_account = last.account_number
    /\ accounts[last.account_number].withdraw_count = 0
    /\ accounts[last.account_number].daily_limit > 0
    /\ accounts[last.account_number].total_withdrawn_today
         = accounts[last.account_number].daily_limit
    /\ accounts[last.account_number].balance = MaxBal
    /\ DOMAIN accounts = {last.account_number}

\* The sum of the balances of the accounts numbered in S.
RECURSIVE SumBalances(_, _)
SumBalances(accts, S) ==
    IF S = {} THEN 0
    ELSE LET n == CHOOSE m \in S : TRUE
         IN accts[n].balance + SumBalances(accts, S \ {n})
TotalBalance(accts) == SumBalances(accts, DOMAIN accts)

\* C19: over deposit, withdraw, transfer and check_balance calls the sum of
\* all balances grows by amount in a successful deposit, falls by amount in a
\* successful withdraw and stays the same in every other call.
C19_Conservation ==
    [][last'.op \in {"deposit", "withdraw", "transfer", "check_balance"} =>
        /\ DOMAIN accounts' = DOMAIN accounts
        /\ TotalBalance(accounts') = TotalBalance(accounts) +
             (IF ~Succeeded(last') THEN 0
              ELSE IF last'.op = "deposit" THEN last'.amount
              ELSE IF last'.op = "withdraw" THEN 0 - last'.amount
              ELSE 0)]_vars

\* a successful transfer of 1 between two accounts that both hold money
\* afterwards
C19_Witness ==
    /\ last.op = "transfer" /\ Succeeded(last) /\ last.amount = 1
    /\ last.to_account # last.account_number
    /\ accounts[last.account_number].balance > 0
    /\ accounts[last.to_account].balance = 2

\* C20: every Savings account has withdraw_count <= 3 in every state; only a
\* Savings account is ever refused with InvalidAccountType, so an account of
\* another type can pass 3 withdrawals.
C20_SavingsCap ==
    [][/\ \A n \in DOMAIN accounts' :
            accounts'[n].type = "Savings" => accounts'[n].withdraw_count <= 3
       /\ last'.exc.kind = "InvalidAccountType" =>
            /\ Registered(last'.exc.account_number)
            /\ accounts[last'.exc.account_number].type = "Savings"
            /\ last'.exc.account_type = "Savings"]_vars

\* a Checking account whose fourth withdrawal has just succeeded
C20_Witness ==
    /\ last.op = "withdraw" /\ Succeeded(last)
    /\ accounts[last.account_number].type = "Checking"
    /\ accounts[last.account_number].withdraw_count > 3

\* The driver has run its first k tests on the bootstrap of the source (the
\* types and the daily limits of the accounts never change during the run).
SourceRunAt(k) ==
    /\ step = k
    /\ \A n \in DOMAIN SourceBootstrap :
          /\ accounts[n].type = SourceBootstrap[n].type
          /\ accounts[n].daily_limit = SourceBootstrap[n].daily_limit

\* C12: on the bootstrap of the source, tests 1 to 8 end as follows: deposit
\* 500 succeeds (ACC001 at 5500); deposit -100 raises NegativeAmount (still
\* 5500); withdraw 0 raises ZeroAmount; withdraw(ACC003, 600) raises
\* InsufficientFunds(ACC003, 600, 500); withdraw(ACC001, 800) succeeds (4700,
\* 800 withdrawn today, 1 withdrawal); withdraw(ACC001, 500) raises
\* DailyLimitExceeded with 200 remaining; withdraw(ACC999, 100) raises
\* AccountNotFound; transfer(ACC002, ACC001, 200) succeeds (ACC002 at 14800
\* with 200 withdrawn today, ACC001 at 4900).
C12_ScenarioSteps ==
    /\ SourceRunAt(1) =>
          /\ last.op = "deposit" /\ last.exc = NoException
          /\ accounts["ACC001"].balance = 5500
    /\ SourceRunAt(2) =>
          /\ last.exc = NegativeAmountException(-100)
          /\ accounts["ACC001"].balance = 5500
    /\ SourceRunAt(3) => last.exc = ZeroAmountException
    /\ SourceRunAt(4) =>
          last.exc = InsufficientFundsException("ACC003", 600, 500)
    /\ SourceRunAt(5) =>
          /\ last.op = "withdraw" /\ last.exc = NoException
          /\ accounts["ACC001"].balance = 4700
          /\ accounts["ACC001"].total_withdrawn_today = 800
          /\ accounts["ACC001"].withdraw_count = 1
    /\ SourceRunAt(6) =>
          last.exc = DailyLimitExceededException("ACC001", 500, 200)
    /\ SourceRunAt(7) => last.exc = AccountNotFoundException("ACC999")
    /\ SourceRunAt(8) =>
          /\ last.op = "transfer" /\ last.exc = NoException
          /\ accounts["ACC002"].balance = 14800
          /\ accounts["ACC002"].total_withdrawn_today = 200
          /\ accounts["ACC001"].balance = 4900

\* the source's run after its eighth test
C12_Witness ==
    /\ SourceRunAt(8)
    /\ last = Call("transfer", "ACC002", "ACC001", 200, NoException, 0)

\* C13 as stated: on the bootstrap of the source the ninth test,
\* transfer(ACC001, ACC002, 2000), raises InsufficientFunds and leaves every
\* account unchanged.
C13_NinthInsufficientFunds ==
    [][(SourceRunAt(8) /\ step' = 9) =>
          /\ last'.exc.kind = "InsufficientFunds"
          /\ accounts' = accounts]_vars

\* C13 amended: on the bootstrap of the source the ninth test,
\* transfer(ACC001, ACC002, 2000), raises DailyLimitExceeded(ACC001, 2000,
\* remaining 200), ACC001 holding 4900 by then, and leaves every account
\* unchanged.
C13_NinthDailyLimitExceeded ==
    [][(SourceRunAt(8) /\ step' = 9) =>
          /\ last'.op = "transfer"
          /\ accounts["ACC001"].balance = 4900
          /\ last'.exc = DailyLimitExceededException("ACC001", 2000, 200)
          /\ accounts' = accounts]_vars

\* the source's run after its ninth test
C13_Witness ==
    /\ SourceRunAt(9)
    /\ last.op = "transfer" /\ last.amount = 2000
    /\ last.exc.kind = "DailyLimitExceeded"
    /\ accounts["ACC001"].balance = 4900

\* An account broke one of the two invariants.
Overdrawn(n) == accounts[n].balance < 0
OverLimit(n) == accounts[n].total_withdrawn_today > accounts[n].daily_limit

\* C15: with the checks and the updates of withdraw as separate steps of two
\* unsynchronized callers, an account ends with balance < 0 or with
\* total_withdrawn_today > daily_limit only when a caller ran its checks
\* on it while the other had passed them and not yet updated it; callers
\* that do not overlap in this way leave both invariants standing.  (That
\* such an overlap does break them is the witness.)
C15_BrokenOnlyByOverlap ==
    \A n \in DOMAIN accounts :
        (Overdrawn(n) \/ OverLimit(n)) =>
            \E t \in Threads :
                /\ threads[t].raced
                /\ threads[t].account_number = n

\* both callers have returned from a withdraw that succeeded, and the
\* account is overdrawn and over its daily limit
C15_Witness ==
    /\ \A t \in Threads :
          threads[t].pc = "done" /\ threads[t].exc.kind = "None"
    /\ \E n \in DOMAIN accounts : Overdrawn(n) /\ OverLimit(n)
====
